---- MODULE Spec2Model ----
(***************************************************************************)
(* Model of the invoice PDF data extractor: the FastAPI service            *)
(* (src/main.py, POST /api/extract) and the Streamlit application          *)
(* (src/app.py, main).                                                     *)
(*                                                                         *)
(* Texts are sequences of tokens.  A token is one of the character groups  *)
(* the code looks for (the fence, "json", the line feed) or an opaque     *)
(* piece of text                                                           *)
(* (whitespace, prose, the text of one JSON object).                       *)
(***************************************************************************)
EXTENDS Integers, Sequences, FiniteSets, TLC

VARIABLES
    surface,           \* "service" (main.py) or "interactive" (app.py)
    pc,                \* position of the run
    files,             \* declared content type of each uploaded file, in upload order
    idx,               \* number of files the loop has taken so far
    all_data,          \* the list all_data: the parsed records, in order
    outcome,           \* what happened to each file taken so far
    text_extractions,  \* calls of extract_text_from_pdf
    llm_calls,         \* calls of get_info_from_llm
    result,            \* how the run ended
    http,              \* status code of the service response (0: none)
    df,                \* the DataFrame df
    final_df,          \* the DataFrame final_df (NoTable: none)
    prev_df,           \* final_df of the previous run of the transformer
    pdf,               \* the PDF given to the text extractor
    text,              \* what the text extractor returned
    extracted_data_str,\* the LLM response given to the parser
    extracted_data     \* what the parser returned

vars == <<surface, pc, files, idx, all_data, outcome, text_extractions, llm_calls,
          result, http, df, final_df, prev_df, pdf, text, extracted_data_str,
          extracted_data>>

-----------------------------------------------------------------------------
(* Bounds of the model *)

MaxFiles == 11      \* longest batch uploaded
MaxPages == 3       \* most pages of a PDF
MaxTokens == 4      \* longest LLM response, in tokens, besides the fenced ones
MaxRows == 2        \* most rows of a table given to the transformer alone
MaxSparse == 1      \* most responses of a batch that lack requested keys

-----------------------------------------------------------------------------
(* Small helpers *)

Range(s) == {s[k] : k \in 1..Len(s)}

RECURSIVE SeqsUpTo(_, _)
SeqsUpTo(S, n) ==
    IF n = 0 THEN {<<>>}
    ELSE LET shorter == SeqsUpTo(S, n - 1)
         IN  shorter \cup {Append(s, x) : s \in {t \in shorter : Len(t) = n - 1}, x \in S}

\* s[a..b], empty when b < a
Slice(s, a, b) == IF b < a THEN <<>> ELSE SubSeq(s, a, b)

\* the positions at which pat occurs in s
Occurrences(s, pat) ==
    {p \in 1..(Len(s) - Len(pat) + 1) : SubSeq(s, p, p + Len(pat) - 1) = pat}

Min(S) == CHOOSE x \in S : \A y \in S : x <= y

-----------------------------------------------------------------------------
(* Text Extractor *)

NoText == "None"                    \* page.extract_text() returned None
PageTexts == {"a", "b", NoText}
Raised == [raised |-> TRUE, value |-> <<>>]
Returned(v) == [raised |-> FALSE, value |-> v]

PDFs == [parseable : BOOLEAN, pages : SeqsUpTo(PageTexts, MaxPages)]

\* text += page.extract_text() or ""      over the pages, in order
RECURSIVE ConcatOrEmpty(_)
ConcatOrEmpty(pages) ==
    IF pages = <<>> THEN <<>>
    ELSE (IF Head(pages) = NoText THEN <<>> ELSE <<Head(pages)>>)
         \o ConcatOrEmpty(Tail(pages))

\* main.py: any exception becomes HTTPException(500)
service_extract_text_from_pdf(p) ==
    IF ~p.parseable THEN Raised ELSE Returned(ConcatOrEmpty(p.pages))

\* app.py: text += page.extract_text(); str + None raises TypeError
interactive_extract_text_from_pdf(p) ==
    IF ~p.parseable \/ NoText \in Range(p.pages) THEN Raised
    ELSE Returned(ConcatOrEmpty(p.pages))

extract_text_from_pdf(s, p) ==
    IF s = "service" THEN service_extract_text_from_pdf(p)
    ELSE interactive_extract_text_from_pdf(p)

-----------------------------------------------------------------------------
(* Response Parser *)

Fence == "FENCE"        \* three backquotes
Json == "json"
LF == "\n"
CR == "\r"
SP == " "
Prose == "prose"
ObjAll == "{all}"       \* a JSON object with the eleven requested keys
ObjNone == "{}"         \* the JSON object {}
ObjQty == "{Quantity}"  \* a JSON object with the key Quantity alone

Whitespace == {LF, CR, SP}
Objects == {ObjAll, ObjNone, ObjQty}
Tokens == {Fence, Json, LF, CR, SP, Prose, ObjAll}

ParseError == "ParseFailure"

RECURSIVE StripLeft(_)
StripLeft(s) ==
    IF s # <<>> /\ Head(s) \in Whitespace THEN StripLeft(Tail(s)) ELSE s

RECURSIVE StripRight(_)
StripRight(s) ==
    IF s # <<>> /\ s[Len(s)] \in Whitespace
    THEN StripRight(SubSeq(s, 1, Len(s) - 1)) ELSE s

\* json.loads: one JSON object, whitespace allowed around it; anything else
\* raises JSONDecodeError
json_loads(s) ==
    LET body == StripRight(StripLeft(s))
    IN  IF Len(body) = 1 /\ body[1] \in Objects THEN body[1] ELSE ParseError

\* s.split(sep)[1]: the text between the first and the second occurrence of
\* sep; IndexError when sep does not occur
SplitSecond(s, sep) ==
    LET occ == Occurrences(s, sep)
    IN  IF occ = {} THEN Raised
        ELSE LET first == Min(occ)
                 from == first + Len(sep)
                 later == {p \in occ : p >= from}
             IN  Returned(IF later = {} THEN Slice(s, from, Len(s))
                          ELSE Slice(s, from, Min(later) - 1))

\* s.split(sep)[0]: the text before the first occurrence of sep
SplitFirst(s, sep) ==
    LET occ == Occurrences(s, sep)
    IN  IF occ = {} THEN s ELSE Slice(s, 1, Min(occ) - 1)

\* the try block of the loop body: strip the fence, json.loads
parse_response(s) ==
    IF Occurrences(s, <<Fence, Json>>) # {}
    THEN LET inner == SplitSecond(s, <<Fence, Json, LF>>)
         IN  IF inner.raised THEN ParseError
             ELSE json_loads(SplitFirst(inner.value, <<Fence>>))
    ELSE json_loads(s)

-----------------------------------------------------------------------------
(* Tables *)

\* the eleven fields the prompt asks for, in the prompt's order
SourceFields ==
    <<"Buyer's Order No.", "Quantity", "Rate", "Basic amount without tax", "IGST",
      "Total Amount", "InvoiceNo", "Ack Date", "GSTIN Number", "TML GSTIN", "IRN">>

\* the keys of the JSON object a token stands for
KeysOf(obj) ==
    IF obj = ObjAll THEN Range(SourceFields)
    ELSE IF obj = ObjQty THEN {"Quantity"}
    ELSE {}

\* a cell of a table: a value of a record (the value document doc gave for
\* field text), a string, NaN or None
Val(d, k) == [kind |-> "value", doc |-> d, text |-> k]
Str(s) == [kind |-> "str", doc |-> 0, text |-> s]
NaN == [kind |-> "NaN", doc |-> 0, text |-> ""]
None == [kind |-> "None", doc |-> 0, text |-> ""]

NoTable == [columns |-> <<"NoTable">>, nrows |-> 0, data |-> <<>>]
EmptyFrame == [columns |-> <<>>, nrows |-> 0, data |-> <<>>]

\* a parsed record: the keys of the JSON object of document doc
Record(d, keys) == [doc |-> d, keys |-> keys]

\* pd.DataFrame(all_data): one row per record, one column per key that occurs
\* in some record, NaN where a record lacks the key
DataFrame(data) ==
    LET cols == SelectSeq(SourceFields, LAMBDA k : \E r \in 1..Len(data) : k \in data[r].keys)
    IN  [columns |-> cols,
         nrows |-> Len(data),
         data |-> [k \in Range(cols) |->
                     [r \in 1..Len(data) |->
                        IF k \in data[r].keys THEN Val(data[r].doc, k) ELSE NaN]]]

\* if old in df.columns: df.rename(columns={old: new}, inplace=True)
Rename(d, old, new) ==
    IF old \notin Range(d.columns) THEN d
    ELSE [columns |-> [p \in 1..Len(d.columns) |->
                         IF d.columns[p] = old THEN new ELSE d.columns[p]],
          nrows |-> d.nrows,
          data |-> [k \in (DOMAIN d.data \ {old}) \cup {new} |->
                      IF k = new THEN d.data[old] ELSE d.data[k]]]

Renames ==
    << <<"Buyer's Order No.", "PoNumber">>,
       <<"InvoiceNo", "Vendor Challan No">>,
       <<"Ack Date", "Challan Date">>,
       <<"Basic amount without tax", "Basic value">>,
       <<"IGST", "IGST VALUE">>,
       <<"Total Amount", "INVOICE VALUE">>,
       <<"Rate", "Gross Rate">> >>

RECURSIVE RenameFrom(_, _)
RenameFrom(d, n) ==
    IF n > Len(Renames) THEN d
    ELSE RenameFrom(Rename(d, Renames[n][1], Renames[n][2]), n + 1)

\* the seven conditional renames, which change df in place
RenameColumns(d) == RenameFrom(d, 1)

\* final_df[col] = <scalar>
SetScalar(f, col, c) ==
    [columns |-> Append(f.columns, col),
     nrows |-> f.nrows,
     data |-> (col :> [r \in 1..f.nrows |-> c]) @@ f.data]

\* final_df[col] = <Series>: a frame without rows takes the rows of the
\* Series, and the columns it has already are filled with NaN
SetSeries(f, col, s) ==
    LET g == IF f.nrows = 0 /\ Len(s) > 0
             THEN [columns |-> f.columns,
                   nrows |-> Len(s),
                   data |-> [c \in DOMAIN f.data |-> [r \in 1..Len(s) |-> NaN]]]
             ELSE f
    IN  [columns |-> Append(g.columns, col),
         nrows |-> g.nrows,
         data |-> (col :> s) @@ g.data]

Get(col, src) == <<col, "get", src>>
Const(col, s) == <<col, "const", s>>

\* the 34 assignments final_df[...] = ..., in order
Assignments ==
    << Get("PO NUMBER", "PoNumber"),
       Const("PO Item No", ""),
       Get("Quantity", "Quantity"),
       Get("VENDOR CHALLAN NO", "Vendor Challan No"),
       Get("Challan Date", "Challan Date"),
       Get("Gross Rate", "Gross Rate"),
       Get("Net P O Rate", "Gross Rate"),
       Get("Basic Value", "Basic value"),
       Get("Taxable Value", "Basic value"),
       Const("SGST VALUE", ""),
       Const("CGST VALUE", ""),
       Get("IGST VALUE", "IGST VALUE"),
       Const("SGST RATE", ""),
       Const("CGST RATE", ""),
       Const("IGST RATE", ""),
       Const("Packing Amount", ""),
       Const("Freight Amount", ""),
       Const("Others Amount", ""),
       Get("INVOICE VALUE", "INVOICE VALUE"),
       Const("Currency", "INR"),
       Const("E Way Bill", ""),
       Const("57F4 NUMBER", ""),
       Const("57F4 NO DATE", ""),
       Get("GSTIN Number", "GSTIN Number"),
       Const("Vehicle Number", ""),
       Const("PART REV Level", ""),
       Const("COP Certificate", ""),
       Const("Certificate Date", ""),
       Get("TML GSTIN", "TML GSTIN"),
       Const("Digital Invoice File Name", ""),
       Get("IRN", "IRN"),
       Const("TCS Value", ""),
       Const("Field4", ""),
       Const("Field5", "") >>

\* one assignment of main.py: df.get(src) is None when df has no column src
Assign(f, d, a) ==
    IF a[2] = "const" THEN SetScalar(f, a[1], Str(a[3]))
    ELSE IF a[3] \in Range(d.columns) THEN SetSeries(f, a[1], d.data[a[3]])
    ELSE SetScalar(f, a[1], None)

\* (the test on g.nrows is always true: it makes g a value before the next
\* assignment is applied to it)
RECURSIVE ProjectFrom(_, _, _)
ProjectFrom(f, d, n) ==
    IF n > Len(Assignments) THEN f
    ELSE LET g == Assign(f, d, Assignments[n])
         IN  IF g.nrows >= 0 THEN ProjectFrom(g, d, n + 1) ELSE g

\* the assignments without the first one
ProjectWithoutFirst(d) == ProjectFrom(EmptyFrame, d, 2)

\* final_df of main.py, from the renamed df
Project(d) == ProjectFrom(EmptyFrame, d, 1)

\* the assignments read from df as it was before the renames
ProjectUnrenamed(d) == Project(d)

\* what transform_data returns
transform_data(d) == Project(RenameColumns(d))

\* app.py reads df[src]: KeyError when df has no column src
KeyError(d) ==
    \E n \in 1..Len(Assignments) :
        Assignments[n][2] = "get" /\ Assignments[n][3] \notin Range(d.columns)

\* final_df of app.py, from the renamed df (NoTable: KeyError was raised)
interactive_transform(d) ==
    IF KeyError(RenameColumns(d)) THEN NoTable ELSE Project(RenameColumns(d))

-----------------------------------------------------------------------------
(* Batch Orchestrator: extract_data_from_pdfs (main.py) and main (app.py) *)

MaxBatch == 10
Pdf == "application/pdf"
ContentTypes == {Pdf, "text/plain"}

\* the limit taken one file too early
TooManyOffByOne(n) == n >= MaxBatch

\* len(files) > 10
TooMany(n) == n > MaxBatch

\* a single record taken for no record
NoDataOrOne(data) == Len(data) <= 1

\* not all_data
NoData(data) == data = <<>>

\* the PDFs and the completions the files of a batch are drawn from
BatchPDFs ==
    {[parseable |-> FALSE, pages |-> <<>>],
     [parseable |-> TRUE, pages |-> <<"a">>],
     [parseable |-> TRUE, pages |-> <<"a", NoText>>]}

BatchResponses ==
    {<<ObjAll>>,
     <<ObjNone>>,
     <<Prose>>,
     <<Fence, Json, LF, ObjAll, LF, Fence>>,
     <<Fence, Json, CR, LF, ObjAll, CR, LF, Fence>>}

\* get_info_from_llm: the response text, or the client raised
Completions == {Raised} \cup {Returned(r) : r \in BatchResponses}

\* the body of the loop for one file: "NotPdf", "ExtractionFailure" and
\* "CompletionFailure" leave the loop by an exception, "ParseFailure" is
\* caught, anything else is the parsed object
FileOutcome(s, ctype, p, c) ==
    IF s = "service" /\ ctype # Pdf THEN "NotPdf"
    ELSE IF extract_text_from_pdf(s, p).raised THEN "ExtractionFailure"
    ELSE IF c.raised THEN "CompletionFailure"
    ELSE parse_response(c.value)

Aborts == {"NotPdf", "ExtractionFailure", "CompletionFailure"}

\* the records of the batch that lack a requested key
Sparse(data) == {r \in 1..Len(data) : data[r].keys # Range(SourceFields)}

\* the status code of the HTTPException a file raises
StatusOf(o) == IF o = "NotPdf" THEN 400 ELSE 500

NoPdf == [parseable |-> FALSE, pages |-> <<>>]
NoValue == Returned(<<>>)

Uploads(s) ==
    IF s = "service"
    THEN UNION {[1..n -> ContentTypes] : n \in 1..MaxFiles}
    ELSE UNION {[1..n -> {Pdf}] : n \in 0..MaxFiles}

Init ==
    /\ surface \in {"service", "interactive"}
    /\ pc = "start"
    /\ files \in Uploads(surface)
    /\ idx = 0
    /\ all_data = <<>>
    /\ outcome = <<>>
    /\ text_extractions = 0
    /\ llm_calls = 0
    /\ result = "pending"
    /\ http = 0
    /\ df = NoTable
    /\ final_df = NoTable
    /\ prev_df = NoTable
    /\ pdf = NoPdf
    /\ text = NoValue
    /\ extracted_data_str = <<>>
    /\ extracted_data = ParseError

\* if uploaded_files: ... (app.py): nothing happens without files
NoFiles ==
    /\ pc = "start"
    /\ surface = "interactive"
    /\ Len(files) = 0
    /\ pc' = "done"
    /\ result' = "Idle"
    /\ UNCHANGED <<surface, files, idx, all_data, outcome, text_extractions,
                   llm_calls, http, df, final_df, prev_df, pdf, text,
                   extracted_data_str, extracted_data>>

\* more than 10 files: HTTPException(400) / st.error
RejectBatch ==
    /\ pc = "start"
    /\ Len(files) > 0
    /\ TooMany(Len(files))
    /\ pc' = "done"
    /\ result' = "BatchLimitExceeded"
    /\ http' = IF surface = "service" THEN 400 ELSE 0
    /\ UNCHANGED <<surface, files, idx, all_data, outcome, text_extractions,
                   llm_calls, df, final_df, prev_df, pdf, text,
                   extracted_data_str, extracted_data>>

\* all_data = []
StartLoop ==
    /\ pc = "start"
    /\ Len(files) > 0
    /\ ~TooMany(Len(files))
    /\ pc' = "loop"
    /\ all_data' = <<>>
    /\ UNCHANGED <<surface, files, idx, outcome, text_extractions, llm_calls,
                   result, http, df, final_df, prev_df, pdf, text,
                   extracted_data_str, extracted_data>>

\* one pass of the loop body
ProcessFile ==
    /\ pc = "loop"
    /\ idx < Len(files)
    /\ \E o \in {FileOutcome(surface, files[idx + 1], p, c) :
                      p \in BatchPDFs, c \in Completions} :
             /\ (o \in Objects /\ KeysOf(o) # Range(SourceFields))
                    => Cardinality(Sparse(all_data)) < MaxSparse
             /\ text_extractions' = text_extractions + (IF o = "NotPdf" THEN 0 ELSE 1)
             /\ llm_calls' = llm_calls + (IF o \in {"NotPdf", "ExtractionFailure"} THEN 0 ELSE 1)
             /\ outcome' = Append(outcome, IF o \in Objects THEN "parsed" ELSE o)
             /\ IF o \in Aborts
                THEN /\ pc' = "done"
                     /\ result' = o
                     /\ http' = IF surface = "service" THEN StatusOf(o) ELSE 0
                     /\ UNCHANGED <<idx, all_data>>
                ELSE /\ idx' = idx + 1
                     /\ all_data' = IF o \in Objects
                                    THEN Append(all_data, Record(idx + 1, KeysOf(o)))
                                    ELSE all_data
                     /\ UNCHANGED <<pc, result, http>>
    /\ UNCHANGED <<surface, files, df, final_df, prev_df, pdf, text,
                   extracted_data_str, extracted_data>>

\* the loop is over and all_data is empty: HTTPException(400) / nothing shown
FinishEmpty ==
    /\ pc = "loop"
    /\ idx = Len(files)
    /\ NoData(all_data)
    /\ pc' = "done"
    /\ result' = "EmptyResult"
    /\ http' = IF surface = "service" THEN 400 ELSE 0
    /\ UNCHANGED <<surface, files, idx, all_data, outcome, text_extractions,
                   llm_calls, df, final_df, prev_df, pdf, text,
                   extracted_data_str, extracted_data>>

\* the loop is over with data: the table is built, transformed and returned
\* (main.py) or shown with its download button (app.py)
FinishTable ==
    /\ pc = "loop"
    /\ idx = Len(files)
    /\ ~NoData(all_data)
    /\ pc' = "done"
    /\ df' = RenameColumns(DataFrame(all_data))
    /\ final_df' = IF surface = "service" THEN transform_data(DataFrame(all_data))
                   ELSE interactive_transform(DataFrame(all_data))
    /\ result' = IF final_df' = NoTable THEN "KeyError" ELSE "Table"
    /\ http' = IF surface = "service" THEN 200 ELSE 0
    /\ UNCHANGED <<surface, files, idx, all_data, outcome, text_extractions,
                   llm_calls, prev_df, pdf, text, extracted_data_str,
                   extracted_data>>

Next ==
    \/ NoFiles
    \/ RejectBatch
    \/ StartLoop
    \/ ProcessFile
    \/ FinishEmpty
    \/ FinishTable

Spec == Init /\ [][Next]_vars

-----------------------------------------------------------------------------
(* The Schema Transformer alone: transform_data applied once, applied a    *)
(* second time to the same df, and applied to its own result; the          *)
(* transformation of app.py applied once.                                  *)

\* the sets of keys of the records given to the transformer: at most one
\* requested key, or at most one requested key missing
KeySets ==
    {K \in SUBSET Range(SourceFields) :
        Cardinality(K) <= 1 \/ Cardinality(K) >= Len(SourceFields) - 1}

Tables ==
    UNION {{[r \in 1..n |-> Record(r, f[r])] : f \in [1..n -> KeySets]} : n \in 1..MaxRows}

InitTransform ==
    /\ surface \in {"service", "interactive"}
    /\ pc = "table"
    /\ files = <<>>
    /\ idx = 0
    /\ all_data \in Tables
    /\ outcome = <<>>
    /\ text_extractions = 0
    /\ llm_calls = 0
    /\ result = "pending"
    /\ http = 0
    /\ df = DataFrame(all_data)
    /\ final_df = NoTable
    /\ prev_df = NoTable
    /\ pdf = NoPdf
    /\ text = NoValue
    /\ extracted_data_str = <<>>
    /\ extracted_data = ParseError

\* final_df = transform_data(df)
TransformData ==
    /\ pc = "table"
    /\ surface = "service"
    /\ pc' = "once"
    /\ df' = RenameColumns(df)
    /\ final_df' = transform_data(df)
    /\ result' = "Table"
    /\ UNCHANGED <<surface, files, idx, all_data, outcome, text_extractions,
                   llm_calls, http, prev_df, pdf, text, extracted_data_str,
                   extracted_data>>

\* transform_data(df) once more, on the df the first call has renamed
TransformAgain ==
    /\ pc = "once"
    /\ surface = "service"
    /\ pc' = "twice"
    /\ prev_df' = final_df
    /\ df' = RenameColumns(df)
    /\ final_df' = transform_data(df)
    /\ UNCHANGED <<surface, files, idx, all_data, outcome, text_extractions,
                   llm_calls, result, http, pdf, text, extracted_data_str,
                   extracted_data>>

\* transform_data(final_df): the transformer applied to its own result
TransformOutput ==
    /\ pc = "once"
    /\ surface = "service"
    /\ pc' = "reapplied"
    /\ prev_df' = final_df
    /\ df' = RenameColumns(final_df)
    /\ final_df' = transform_data(final_df)
    /\ UNCHANGED <<surface, files, idx, all_data, outcome, text_extractions,
                   llm_calls, result, http, pdf, text, extracted_data_str,
                   extracted_data>>

\* the renames and the assignments of app.py, lines 116-172
InteractiveTransform ==
    /\ pc = "table"
    /\ surface = "interactive"
    /\ pc' = "once"
    /\ df' = RenameColumns(df)
    /\ final_df' = interactive_transform(df)
    /\ result' = IF final_df' = NoTable THEN "KeyError" ELSE "Table"
    /\ UNCHANGED <<surface, files, idx, all_data, outcome, text_extractions,
                   llm_calls, http, prev_df, pdf, text, extracted_data_str,
                   extracted_data>>

NextTransform ==
    \/ TransformData
    \/ TransformAgain
    \/ TransformOutput
    \/ InteractiveTransform

SpecTransform == InitTransform /\ [][NextTransform]_vars

-----------------------------------------------------------------------------
(* The Response Parser alone *)

\* J in a fenced block: prose, the opening marker, what follows it, J, the
\* closing fence, prose
Fenced(pre, ws, obj, ws2, post) ==
    pre \o <<Fence, Json>> \o ws \o <<obj>> \o ws2 \o <<Fence>> \o post

BeforeFence == {<<>>, <<Prose>>, <<Prose, LF>>}
AfterMarker == {<<LF>>, <<CR, LF>>, <<SP, LF>>, <<SP>>}
BeforeClosing == {<<>>, <<LF>>}
AfterFence == {<<>>, <<LF, Prose>>}

FencedResponses ==
    {Fenced(pre, ws, obj, ws2, post) :
        pre \in BeforeFence, ws \in AfterMarker, obj \in Objects,
        ws2 \in BeforeClosing, post \in AfterFence}

Responses ==
    SeqsUpTo(Tokens, MaxTokens) \cup {<<obj>> : obj \in Objects} \cup FencedResponses

InitParse ==
    /\ surface \in {"service", "interactive"}
    /\ pc = "response"
    /\ files = <<>>
    /\ idx = 0
    /\ all_data = <<>>
    /\ outcome = <<>>
    /\ text_extractions = 0
    /\ llm_calls = 0
    /\ result = "pending"
    /\ http = 0
    /\ df = NoTable
    /\ final_df = NoTable
    /\ prev_df = NoTable
    /\ pdf = NoPdf
    /\ text = NoValue
    /\ extracted_data_str \in Responses
    /\ extracted_data = ParseError

\* the try block of the loop body (the same text in main.py and app.py)
ParseResponse ==
    /\ pc = "response"
    /\ pc' = "parsed"
    /\ extracted_data' = parse_response(extracted_data_str)
    /\ UNCHANGED <<surface, files, idx, all_data, outcome, text_extractions,
                   llm_calls, result, http, df, final_df, prev_df, pdf, text,
                   extracted_data_str>>

NextParse == ParseResponse

SpecParse == InitParse /\ [][NextParse]_vars

-----------------------------------------------------------------------------
(* The Text Extractor alone *)

InitExtract ==
    /\ surface \in {"service", "interactive"}
    /\ pc = "pdf"
    /\ files = <<>>
    /\ idx = 0
    /\ all_data = <<>>
    /\ outcome = <<>>
    /\ text_extractions = 0
    /\ llm_calls = 0
    /\ result = "pending"
    /\ http = 0
    /\ df = NoTable
    /\ final_df = NoTable
    /\ prev_df = NoTable
    /\ pdf \in PDFs
    /\ text = NoValue
    /\ extracted_data_str = <<>>
    /\ extracted_data = ParseError

\* text = extract_text_from_pdf(file)
ExtractText ==
    /\ pc = "pdf"
    /\ pc' = "extracted"
    /\ text' = extract_text_from_pdf(surface, pdf)
    /\ text_extractions' = text_extractions + 1
    /\ UNCHANGED <<surface, files, idx, all_data, outcome, llm_calls, result,
                   http, df, final_df, prev_df, pdf, extracted_data_str,
                   extracted_data>>

NextExtract == ExtractText

SpecExtract == InitExtract /\ [][NextExtract]_vars

-----------------------------------------------------------------------------
(* Properties *)

\* the files whose response parsed, in upload order
ParsedDocs ==
    SelectSeq([k \in 1..Len(outcome) |-> k], LAMBDA k : outcome[k] = "parsed")

\* the loop has taken every file of the batch
LoopCompleted == pc = "done" /\ Len(files) > 0 /\ idx = Len(files)

\* C1: a batch of 1 to 10 files never gets the batch-limit rejection; a batch
\* of more than 10 files is rejected (service: status 400) and no text
\* extraction and no LLM call is ever made for it, on both surfaces.
C1_BatchLimit ==
    /\ (Len(files) \in 1..MaxBatch => result # "BatchLimitExceeded")
    /\ (Len(files) > MaxBatch =>
          /\ text_extractions = 0
          /\ llm_calls = 0
          /\ outcome = <<>>
          /\ (pc = "done" =>
                /\ result = "BatchLimitExceeded"
                /\ (surface = "service" => http = 400)))

C1_Witness ==
    /\ pc = "done"
    /\ surface = "service"
    /\ Len(files) = MaxBatch + 1
    /\ result = "BatchLimitExceeded"

\* C2: in a batch of at most 10 PDF files, when the text extraction or the
\* completion call fails for a file, the files after it are still processed
\* and the records of the files that parsed are in the output.
C2_FailureIsolation ==
    (/\ pc = "done"
     /\ Len(files) <= MaxBatch
     /\ \A k \in 1..Len(files) : files[k] = Pdf
     /\ \E k \in 1..Len(outcome) : outcome[k] \in {"ExtractionFailure", "CompletionFailure"})
    => /\ Len(outcome) = Len(files)
       /\ [r \in 1..Len(all_data) |-> all_data[r].doc] = ParsedDocs
       /\ (ParsedDocs # <<>> => final_df # NoTable)

\* C3: in a batch of at most 10 files whose extractions and completion calls
\* all succeed, a response that fails to parse does not stop the loop, and
\* the output table has one row per file whose response parsed, in upload
\* order (service: status 200).
C3_ParseIsolation ==
    (/\ pc = "done"
     /\ Len(files) \in 1..MaxBatch
     /\ Len(outcome) = Len(files)
     /\ \A k \in 1..Len(outcome) : outcome[k] \in {"parsed", "ParseFailure"})
    => /\ [r \in 1..Len(all_data) |-> all_data[r].doc] = ParsedDocs
       /\ (ParsedDocs # <<>> =>
             /\ final_df # NoTable
             /\ final_df.nrows = Len(ParsedDocs)
             /\ (surface = "service" => http = 200))

\* What holds of the loop whatever the records contain: all_data has one
\* record per file whose response parsed so far, in upload order, and a
\* parse failure does not end the loop.
BatchTableInUploadOrder ==
    /\ [r \in 1..Len(all_data) |-> all_data[r].doc] = ParsedDocs
    /\ (pc = "done" /\ outcome # <<>> /\ outcome[Len(outcome)] = "ParseFailure"
          => Len(outcome) = Len(files))

\* What the code does: the table has one row per parsed file, in upload order,
\* when every parsed record has the eleven requested keys.
RowsWhenEveryKeyIsPresent ==
    (/\ pc = "done"
     /\ Len(files) \in 1..MaxBatch
     /\ Len(outcome) = Len(files)
     /\ \A k \in 1..Len(outcome) : outcome[k] \in {"parsed", "ParseFailure"}
     /\ Sparse(all_data) = {}
     /\ ParsedDocs # <<>>)
    => /\ final_df # NoTable
       /\ final_df.nrows = Len(ParsedDocs)
       /\ \A r \in 1..final_df.nrows :
             final_df.data["IRN"][r] = Val(ParsedDocs[r], "IRN")
       /\ (surface = "service" => http = 200)

\* C4: EmptyResult is reported only after every file of the batch has been
\* taken and none gave a record, with status 400 (service) or without table
\* (interactive), never with a table; a completed loop with a record does not
\* report it, and a completed loop without record does.
C4_EmptyResult ==
    /\ (result = "EmptyResult" =>
          /\ LoopCompleted
          /\ Len(outcome) = Len(files)
          /\ \A k \in 1..Len(outcome) : outcome[k] = "ParseFailure"
          /\ all_data = <<>>
          /\ final_df = NoTable
          /\ (surface = "service" => http = 400))
    /\ (LoopCompleted /\ all_data # <<>> => result # "EmptyResult")
    /\ (LoopCompleted /\ all_data = <<>> => result = "EmptyResult")

C4_Witness ==
    /\ result = "EmptyResult"
    /\ surface = "service"
    /\ Len(files) >= 2
    /\ http = 400

\* the 34 names of the fixed output schema, in its order
C5_SchemaColumns ==
    <<"PO NUMBER", "PO Item No", "Quantity", "VENDOR CHALLAN NO", "Challan Date",
      "Gross Rate", "Net P O Rate", "Basic Value", "Taxable Value", "SGST VALUE",
      "CGST VALUE", "IGST VALUE", "SGST RATE", "CGST RATE", "IGST RATE",
      "Packing Amount", "Freight Amount", "Others Amount", "INVOICE VALUE",
      "Currency", "E Way Bill", "57F4 NUMBER", "57F4 NO DATE", "GSTIN Number",
      "Vehicle Number", "PART REV Level", "COP Certificate", "Certificate Date",
      "TML GSTIN", "Digital Invoice File Name", "IRN", "TCS Value", "Field4",
      "Field5">>

C6_ColumnsOf(field) ==
    IF field = "Buyer's Order No." THEN {"PO NUMBER"}
    ELSE IF field = "Rate" THEN {"Gross Rate", "Net P O Rate"}
    ELSE IF field = "Basic amount without tax" THEN {"Basic Value", "Taxable Value"}
    ELSE IF field = "IGST" THEN {"IGST VALUE"}
    ELSE IF field = "Total Amount" THEN {"INVOICE VALUE"}
    ELSE IF field = "InvoiceNo" THEN {"VENDOR CHALLAN NO"}
    ELSE IF field = "Ack Date" THEN {"Challan Date"}
    ELSE {field}

\* C6: the Schema Transformer never raises, and a record that lacks a source
\* key has the empty string in the output columns of that key, on both
\* surfaces.
C6_Totality ==
    pc = "once"
    => /\ result # "KeyError"
       /\ final_df # NoTable
       /\ final_df.nrows = Len(all_data)
       /\ \A r \in 1..Len(all_data) : \A k \in Range(SourceFields) \ all_data[r].keys :
             \A col \in C6_ColumnsOf(k) : final_df.data[col][r] = Str("")

\* What the code does: in the service's table the cells of a key that a
\* record lacks are NaN or None, never the empty string.
MissingKeyIsNeverEmptyString ==
    (pc = "once" /\ surface = "service" /\ final_df.nrows = Len(all_data))
    => \A r \in 1..Len(all_data) : \A k \in Range(SourceFields) \ all_data[r].keys :
          \A col \in C6_ColumnsOf(k) : final_df.data[col][r] \in {NaN, None}

\* C7: a JSON object J in a fenced block opened with the JSON marker, whatever
\* whitespace or line ending follows the marker and whatever prose surrounds
\* the block, parses to what J alone parses to, without ParseFailure.
C7_FenceTransparency ==
    pc = "parsed"
    => \A pre \in BeforeFence, ws \in AfterMarker, obj \in Objects,
          ws2 \in BeforeClosing, post \in AfterFence :
          extracted_data_str = Fenced(pre, ws, obj, ws2, post)
          => /\ extracted_data # ParseError
             /\ extracted_data = parse_response(<<obj>>)

\* What the code does: the block parses to J when a line feed follows the
\* marker at once, and fails to parse otherwise.
FenceNeedsLineFeed ==
    pc = "parsed"
    => \A pre \in BeforeFence, ws \in AfterMarker, obj \in Objects,
          ws2 \in BeforeClosing, post \in AfterFence :
          extracted_data_str = Fenced(pre, ws, obj, ws2, post)
          => extracted_data = IF ws = <<LF>> THEN obj ELSE ParseError

\* C8: a service batch of at most 10 files with a file whose content type is
\* not application/pdf is answered 400, wherever that file is and whatever
\* happened to the files before it.
C8_NonPdfStatus ==
    (/\ surface = "service"
     /\ pc = "done"
     /\ Len(files) <= MaxBatch
     /\ \E k \in 1..Len(files) : files[k] # Pdf)
    => http = 400

\* What the code does: the answer is 400 when no file before the one that is
\* not a PDF failed in its extraction or its completion call.
NonPdfReachedIs400 ==
    (/\ surface = "service"
     /\ pc = "done"
     /\ Len(files) <= MaxBatch
     /\ \E k \in 1..Len(files) : files[k] # Pdf
     /\ \A k \in 1..Len(outcome) :
           outcome[k] \notin {"ExtractionFailure", "CompletionFailure"})
    => http = 400

\* C9, as stated: a second run of transform_data on the same input table
\* gives the table the first run gave, and so does transform_data applied to
\* the table it gave.
C9_Idempotence ==
    pc \in {"twice", "reapplied"} => final_df = prev_df

\* C9, amended: a second run of transform_data on the same input table (which
\* the first run has renamed in place) gives the table the first run gave.
C9_RunTwice ==
    pc = "twice" => (final_df # NoTable /\ final_df = prev_df)

\* What the code does: applied to its own result for a record with the
\* eleven keys, transform_data loses the columns whose names it reads in
\* another spelling.
ReappliedLosesColumns ==
    (pc = "reapplied" /\ Sparse(all_data) = {})
    => /\ final_df # prev_df
       /\ \A r \in 1..final_df.nrows :
             /\ prev_df.data["PO NUMBER"][r] = Val(r, "Buyer's Order No.")
             /\ final_df.data["PO NUMBER"][r] = NaN
             /\ final_df.data["VENDOR CHALLAN NO"][r] = None
             /\ final_df.data["Basic Value"][r] = None

C9_Witness ==
    /\ pc = "twice"
    /\ Len(all_data) = 2
    /\ all_data[1].keys = Range(SourceFields)
    /\ "Gross Rate" \in Range(df.columns)
    /\ final_df = prev_df

\* C10: for a parseable PDF the Text Extractor returns the texts of the pages
\* joined in page order, a page without text giving nothing, and does not
\* raise, on both surfaces.
C10_BlankPages ==
    (pc = "extracted" /\ pdf.parseable)
    => /\ ~text.raised
       /\ text.value = SelectSeq(pdf.pages, LAMBDA t : t # NoText)

\* What the code does: the service's extractor is as C10 says.
ServiceBlankPages ==
    (pc = "extracted" /\ pdf.parseable /\ surface = "service")
    => /\ ~text.raised
       /\ text.value = SelectSeq(pdf.pages, LAMBDA t : t # NoText)

====
